---- MODULE Spec2Model ----
(***************************************************************************)
(* koishi-plugin-about (src/src/index.ts): the scraper table, apply's      *)
(* fan-out/fan-in over the configured scrapers, scrapeGitVersion's two     *)
(* sequential spawnOutput calls, and the about command.                    *)
(*                                                                         *)
(* Text is a sequence of tokens (short strings); a token is either all     *)
(* white space or has none at its ends, so trim() removes whole tokens.    *)
(* Names and keys are sequences of single characters, so that slice(),     *)
(* toLowerCase() and + act on them as they do in the source.               *)
(* The module is ASCII: the literals of localeDict are transliterated.     *)
(***************************************************************************)
EXTENDS Naturals, Sequences, FiniteSets, TLC

\* ------------------------------------------------------------- bounds
\* longest configured scraper list drawn (besides the default list)
MaxLen == 2
\* most invocations of the about command followed
MaxInvocations == 2

\* ------------------------------------------------------------- text
WhiteSpace == {" ", "\n"}

RECURSIVE trimStart(_)
trimStart(s) ==
  IF s # <<>> /\ Head(s) \in WhiteSpace THEN trimStart(Tail(s)) ELSE s

RECURSIVE trimEnd(_)
trimEnd(s) ==
  IF s # <<>> /\ s[Len(s)] \in WhiteSpace
  THEN trimEnd(SubSeq(s, 1, Len(s) - 1))
  ELSE s

\* String.prototype.trim (index.ts:92, 102)
trim(s) == trimEnd(trimStart(s))

\* String.prototype.slice(n): the characters from 0-based index n on
slice(s, n) == SubSeq(s, n + 1, Len(s))

\* String.prototype.toLowerCase on one character (index.ts:71)
toLowerCase(c) ==
  CASE c = "P" -> "p"
    [] c = "G" -> "g"
    [] c = "K" -> "k"
    [] c = "V" -> "v"
    [] OTHER -> c

\* ------------------------------------------------------------- values
Null == {}
Some(x) == {x}

Undefined == [t |-> "undefined", v |-> <<>>]
Str(s) == [t |-> "string", v |-> s]
Obj(f) == [t |-> "object", v |-> f]

\* ------------------------------------------------------------- scrapers
\* Object.keys(scrapers), in the order of the object literal (index.ts:9-13)
scrapers ==
  << <<"s","c","r","a","p","e","P","r","o","j","e","c","t">>,
     <<"s","c","r","a","p","e","G","i","t","V","e","r","s","i","o","n">>,
     <<"s","c","r","a","p","e","K","o","i","s","h","i","V","e","r","s","i","o","n">> >>

\* index.ts:18-19
removeScrapePrefix(x) == slice(x, 6)

\* index.ts:21-23
scraperList == [i \in 1..Len(scrapers) |-> removeScrapePrefix(scrapers[i])]

\* scrapers[('scrape' + x)] (index.ts:73): which function the lookup finds
Lookup(x) ==
  LET k == <<"s","c","r","a","p","e">> \o x
  IN  IF k = scrapers[1] THEN "scrapeProject"
      ELSE IF k = scrapers[2] THEN "scrapeGitVersion"
      ELSE IF k = scrapers[3] THEN "scrapeKoishiVersion"
      ELSE "undefined"

\* const key = x[0].toLowerCase() + x.slice(1) (index.ts:71)
KeyNoLower(x) == x
Key(x) == <<toLowerCase(x[1])>> \o slice(x, 1)

\* ------------------------------------------------------------- locale
\* localeDict.commands.about.messsages.unknown (index.ts:44)
unknown == <<"(unknown)">>

Lit(s) == [lit |-> s, path |-> <<>>]
Ph(p) == [lit |-> "", path |-> p]

projectKey == <<"p","r","o","j","e","c","t">>
gitVersionKey == <<"g","i","t","V","e","r","s","i","o","n">>
koishiVersionKey == <<"k","o","i","s","h","i","V","e","r","s","i","o","n">>

\* a template that prints the scraped git version on its version line
templateGitVersion ==
  << Ph(<<projectKey, "name">>), Lit(" - "), Ph(<<projectKey, "description">>),
     Lit("\n"),
     Lit("version: "), Ph(<<gitVersionKey>>), Lit("\n"),
     Lit("framework: Koishi v"), Ph(<<koishiVersionKey>>) >>

\* localeDict.commands.about.template after .trim() (index.ts:38-42):
\* {project.name} - {project.description} / {project.version} / {koishiVersion}
template ==
  << Ph(<<projectKey, "name">>), Lit(" - "), Ph(<<projectKey, "description">>),
     Lit("\n"),
     Lit("version: "), Ph(<<projectKey, "version">>), Lit("\n"),
     Lit("framework: Koishi v"), Ph(<<koishiVersionKey>>) >>

\* the host's interpolation of one {a.b} placeholder: a missing step is ''
Interpolate(path, params) ==
  IF path[1] \notin DOMAIN params THEN <<>>
  ELSE LET v == params[path[1]]
       IN  IF Len(path) = 1
           THEN (IF v.t = "string" THEN v.v ELSE <<>>)
           ELSE IF v.t = "object" /\ path[2] \in DOMAIN v.v
                THEN v.v[path[2]]
                ELSE <<>>

\* session.text('commands.about.template', result) (index.ts:83)
RECURSIVE Render(_, _)
Render(tpl, params) ==
  IF tpl = <<>> THEN <<>>
  ELSE (IF Head(tpl).path = <<>>
        THEN <<Head(tpl).lit>>
        ELSE Interpolate(Head(tpl).path, params))
       \o Render(Tail(tpl), params)

\* ------------------------------------------------------------- environment
\* what require(join(process.cwd(), 'package.json')) finds (index.ts:115)
ProjectFiles ==
  { [ok |-> FALSE, json |-> <<>>, why |-> "missing"],
    [ok |-> FALSE, json |-> <<>>, why |-> "malformed"],
    [ok |-> TRUE, why |-> "",
     json |-> [name |-> <<"about">>, description |-> <<"demo">>]],
    [ok |-> TRUE, why |-> "",
     json |-> [name |-> <<"about">>, description |-> <<"demo">>,
               version |-> <<"0.1.0">>]] }

\* what require(require.resolve('koishi/package.json')) finds (index.ts:131-133)
KoishiPkgs ==
  { [ok |-> FALSE, json |-> <<>>, why |-> "unresolvable"],
    [ok |-> TRUE, why |-> "", json |-> [version |-> <<"4.15.0">>]] }

Unread == [ok |-> FALSE, json |-> <<>>, why |-> "unread"]

\* the chunks the git commands write when they run to their end
\* (index.ts:91, 101), for a repository tagged v1.2.0 with one commit:
\* describe's line arrives in two chunks, rev-list's in one
Output(cmd) ==
  IF cmd = "describe" THEN << <<"v1.2.0">>, <<"\n">> >>
  ELSE << <<"1", "\n">> >>

\* the ways a child process closes: (code, signal) of the 'close' event
ExitWays ==
  { [code |-> Some(0), signal |-> Null],
    [code |-> Some(1), signal |-> Null],
    [code |-> Null, signal |-> Some("SIGTERM")] }

\* ------------------------------------------------------------- state
VARIABLES
  config,       \* config.scrapers
  phase,        \* "loaded" | "awaiting" (Promise.all pending) | "registered"
  passes,       \* how many times the scrapers were fanned out
  tasks,        \* the mapped async callbacks, by index of config.scrapers
  procs,        \* the spawnOutput calls, by <<task, command>>
  lastSettled,  \* per key, the task whose promise settled last
  fs,           \* what the two require() calls found (Unread until called)
  result,       \* the MetadataRecord
  invocations,  \* how many times the about command ran
  responses     \* the texts the about command returned

vars ==
  <<config, phase, passes, tasks, procs, lastSettled, fs, result, invocations,
    responses>>

RECURSIVE SeqsUpTo(_, _)
SeqsUpTo(S, n) ==
  IF n = 0 THEN {<<>>}
  ELSE LET shorter == SeqsUpTo(S, n - 1)
       IN  shorter \cup {Append(s, x) : s \in shorter, x \in S}

Names == {scraperList[i] : i \in 1..Len(scraperList)}

\* Schema.array(Schema.union(scraperList)).default(scraperList) (index.ts:29-33)
Configs == SeqsUpTo(Names, MaxLen) \cup {scraperList}

Init ==
  /\ config \in Configs
  /\ phase = "loaded"
  /\ passes = 0
  /\ tasks = <<>>
  /\ procs = <<>>
  /\ lastSettled = <<>>
  /\ fs = [project |-> Unread, koishi |-> Unread]
  /\ result = <<>>
  /\ invocations = 0
  /\ responses = {}

\* ------------------------------------------------------------- spawnOutput
NoExit == [code |-> Null, signal |-> Null]

\* if (x) ... in the 'close' listener (index.ts:163): x is a number or null
Truthy(x) == \E n \in x : n # 0

\* child.stdout.on('data', (x) => (stdout += x)) (index.ts:160)
OnData(stdout, x) == stdout \o x

\* child.on('close', (x) => { if (x) reject(x) else resolve(stdout) })
\* (index.ts:162-165); x is the event's first argument, the exit code
OnClose(stdout, x) ==
  IF Truthy(x)
  THEN [outcome |-> "rejected", payload |-> [t |-> "number", v |-> x]]
  ELSE [outcome |-> "resolved", payload |-> Str(stdout)]

\* spawnOutput up to the promise it returns (index.ts:150-161). hasStdout is
\* whether spawn() gave the child a stdout stream; without one no child runs
\* and the call throws at once.
Spawn(cmd, hasStdout) ==
  IF hasStdout
  THEN [cmd |-> cmd, status |-> "running", sent |-> 0, stdout |-> <<>>,
        exit |-> NoExit, outcome |-> "pending", payload |-> Undefined]
  ELSE [cmd |-> cmd, status |-> "nostream", sent |-> 0, stdout |-> <<>>,
        exit |-> NoExit, outcome |-> "rejected",
        payload |-> [t |-> "Error", v |-> <<"cannot get stdout of ", "git">>]]

\* ------------------------------------------------------------- scrapers
\* scrapeProject (index.ts:112-126)
scrapeProject(pf) == IF pf.ok THEN Obj(pf.json) ELSE Obj(<<>>)

\* scrapeKoishiVersion (index.ts:128-143)
scrapeKoishiVersion(kp) == IF kp.ok THEN Str(kp.json.version) ELSE Str(unknown)

\* scrapeGitVersion after its first await (index.ts:89-97)
GitStep1(call) ==
  IF call.outcome = "rejected"
  THEN [st |-> "settled", version |-> <<>>, value |-> Str(unknown)]
  ELSE [st |-> "revlist", version |-> <<>> \o trim(call.payload.v),
        value |-> Undefined]

\* scrapeGitVersion after its second await (index.ts:99-109)
GitStep2Partial(version, call) ==
  IF call.outcome = "rejected"
  THEN [st |-> "settled", version |-> version, value |-> Str(version)]
  ELSE [st |-> "settled", version |-> version,
        value |-> Str(version \o <<" (build ">> \o trim(call.payload.v) \o <<")">>)]
GitStep2(version, call) ==
  IF call.outcome = "rejected"
  THEN [st |-> "settled", version |-> version, value |-> Str(unknown)]
  ELSE [st |-> "settled", version |-> version,
        value |-> Str(version \o <<" (build ">> \o trim(call.payload.v) \o <<")">>)]

\* the git commands scrapeGitVersion has spawned when it first suspends
\* (index.ts:90-91)
SpawnedAtStartBoth == {"describe", "revlist"}
SpawnedAtStart == {"describe"}

\* one mapped callback, run until it first suspends (index.ts:70-75)
Start(x, pf, kp, hasStdout) ==
  LET fn == Lookup(x)
      body ==
        IF fn = "scrapeProject"
        THEN [st |-> "settled", version |-> <<>>, value |-> scrapeProject(pf)]
        ELSE IF fn = "scrapeKoishiVersion"
        THEN [st |-> "settled", version |-> <<>>,
              value |-> scrapeKoishiVersion(kp)]
        ELSE LET call == Spawn("describe", hasStdout)
             IN  IF call.outcome = "pending"
                 THEN [st |-> "describe", version |-> <<>>, value |-> Undefined]
                 ELSE GitStep1(call)
  IN  [name |-> x, key |-> Key(x), fn |-> fn, st |-> body.st,
       version |-> body.version, value |-> body.value]

\* ------------------------------------------------------------- apply
\* config.scrapers, the list apply maps over (index.ts:70)
SelectedOrDefault(cfg) == IF cfg = <<>> THEN scraperList ELSE cfg
Selected(cfg) == cfg

\* how many callbacks .map() has run when Promise.all is awaited (index.ts:69-70)
MappedOneAtATime(sel) == IF sel = <<>> THEN 0 ELSE 1
Mapped(sel) == Len(sel)

Max(S) == CHOOSE x \in S : \A y \in S : y <= x

\* the array Promise.all resolves to: one { [key]: value } per element, in
\* the order of the input array (index.ts:69-76)
PromiseAllCompletionOrder(ts, last) ==
  [i \in 1..Len(ts) |-> (ts[i].key :> ts[last[ts[i].key]].value)]
PromiseAll(ts, last) ==
  [i \in 1..Len(ts) |-> (ts[i].key :> ts[i].value)]

\* Object.assign(target, ...sources): later sources overwrite (index.ts:67-77)
RECURSIVE ObjectAssign(_, _)
ObjectAssign(target, sources) ==
  IF sources = <<>> THEN target
  ELSE ObjectAssign(Head(sources) @@ target, Tail(sources))

GitTasks(sel) == {i \in 1..Len(sel) : Lookup(sel[i]) = "scrapeGitVersion"}

\* apply up to `await Promise.all(...)` (index.ts:56-70): every callback of
\* the map runs until it first suspends
Apply ==
  /\ phase = "loaded"
  /\ \E pf \in ProjectFiles, kp \in KoishiPkgs :
     LET sel == Selected(config)
         n == Mapped(sel)
         git == {i \in GitTasks(sel) : i <= n}
     IN  \E streams \in SUBSET git :
         LET ts == [i \in 1..n |-> Start(sel[i], pf, kp, i \in streams)]
         IN  /\ tasks' = ts
             /\ procs' =
                  [k \in git \X SpawnedAtStart |-> Spawn(k[2], k[1] \in streams)]
             /\ lastSettled' =
                  LET done == {i \in 1..n : ts[i].st = "settled"}
                  IN  [key \in {ts[i].key : i \in done} |->
                         Max({i \in done : ts[i].key = key})]
             /\ fs' =
                  [project |->
                     IF \E i \in 1..n : ts[i].fn = "scrapeProject"
                     THEN pf ELSE Unread,
                   koishi |->
                     IF \E i \in 1..n : ts[i].fn = "scrapeKoishiVersion"
                     THEN kp ELSE Unread]
  /\ phase' = "awaiting"
  /\ passes' = passes + 1
  /\ UNCHANGED <<config, result, invocations, responses>>

\* a running child writes the next part of its output: one 'data' event
ProcData(k) ==
  /\ k \in DOMAIN procs
  /\ procs[k].status = "running"
  /\ procs[k].sent < Len(Output(procs[k].cmd))
  /\ LET x == Output(procs[k].cmd)[procs[k].sent + 1]
     IN  procs' = [procs EXCEPT ![k].sent = @ + 1,
                                ![k].stdout = OnData(@, x)]
  /\ UNCHANGED <<config, phase, passes, tasks, lastSettled, fs, result,
                 invocations, responses>>

\* A child that exits with code 0 has written all of its output; one that
\* fails or is killed may have written any part of it.
Exits(p) ==
  {w \in ExitWays : w.code = Some(0) => p.sent = Len(Output(p.cmd))}

\* a running child closes: the 'close' listener settles the call, and
\* scrapeGitVersion runs on from its await (index.ts:162-165, 89-109): after
\* describe it returns the unknown-marker or makes the rev-list call (unless
\* that call was already made), after rev-list it returns
ProcClose(k) ==
  /\ k \in DOMAIN procs
  /\ procs[k].status = "running"
  /\ \E way \in Exits(procs[k]), hasStdout \in BOOLEAN :
     LET i == k[1]
         call == OnClose(procs[k].stdout, way.code)
         closed == [procs[k] EXCEPT !.status = "closed", !.sent = 0,
                                    !.stdout = <<>>, !.exit = way,
                                    !.outcome = call.outcome,
                                    !.payload = call.payload]
         step1 == GitStep1(call)
         call2 == Spawn("revlist", hasStdout)
         next ==
           IF k[2] = "revlist" THEN GitStep2(tasks[i].version, call)
           ELSE IF step1.st = "settled" THEN step1
           ELSE IF <<i, "revlist">> \in DOMAIN procs THEN step1
           ELSE IF call2.outcome = "pending" THEN step1
           ELSE GitStep2(step1.version, call2)
         spawns ==
           k[2] = "describe" /\ step1.st # "settled"
             /\ <<i, "revlist">> \notin DOMAIN procs
     IN  /\ tasks' = [tasks EXCEPT ![i].st = next.st,
                                   ![i].version = next.version,
                                   ![i].value = next.value]
         /\ procs' =
              IF spawns
              THEN (<<i, "revlist">> :> call2) @@ (k :> closed) @@ procs
              ELSE (k :> closed) @@ procs
         /\ lastSettled' =
              IF next.st = "settled" /\ tasks[i].st # "settled"
              THEN (tasks[i].key :> i) @@ lastSettled
              ELSE lastSettled
  /\ UNCHANGED <<config, phase, passes, fs, result, invocations, responses>>

\* Promise.all resolves; Object.assign builds the record; the command is
\* registered (index.ts:67-83)
Gather ==
  /\ phase = "awaiting"
  /\ \A i \in DOMAIN tasks : tasks[i].st = "settled"
  /\ result' = ObjectAssign(<<>>, PromiseAll(tasks, lastSettled))
  /\ phase' = "registered"
  /\ UNCHANGED <<config, passes, tasks, procs, lastSettled, fs, invocations,
                 responses>>

\* the action of the about command (index.ts:83)
AboutRescrape ==
  /\ phase = "registered"
  /\ invocations < MaxInvocations
  /\ invocations' = invocations + 1
  /\ passes' = passes + 1
  /\ \E kp \in KoishiPkgs :
       /\ result' = (koishiVersionKey :> scrapeKoishiVersion(kp)) @@ result
       /\ responses' = responses \cup {Render(template, result')}
  /\ UNCHANGED <<config, phase, tasks, procs, lastSettled, fs>>
About ==
  /\ phase = "registered"
  /\ invocations < MaxInvocations
  /\ invocations' = invocations + 1
  /\ responses' = responses \cup {Render(template, result)}
  /\ UNCHANGED <<config, phase, passes, tasks, procs, lastSettled, fs, result>>

Next ==
  \/ Apply
  \/ \E k \in DOMAIN procs : ProcData(k)
  \/ \E k \in DOMAIN procs : ProcClose(k)
  \/ Gather
  \/ About

Spec == Init /\ [][Next]_vars

\* the host calls apply, every child process closes, the event loop runs
FairSpec ==
  /\ Spec
  /\ WF_vars(Apply)
  /\ WF_vars(\E k \in DOMAIN procs : ProcClose(k))
  /\ WF_vars(Gather)

\* ------------------------------------------------------------- claims
NameProject == <<"P","r","o","j","e","c","t">>
NameGitVersion == <<"G","i","t","V","e","r","s","i","o","n">>
NameKoishiVersion == <<"K","o","i","s","h","i","V","e","r","s","i","o","n">>

LowerCamel(x) ==
  IF x = NameProject THEN projectKey
  ELSE IF x = NameGitVersion THEN gitVersionKey
  ELSE koishiVersionKey

Success(exit) == exit.code = Some(0) /\ exit.signal = Null

RECURSIVE Flatten(_)
Flatten(ss) == IF ss = <<>> THEN <<>> ELSE Head(ss) \o Flatten(Tail(ss))

\* the lines of a text: the tokens between its line breaks
RECURSIVE Lines(_)
Lines(text) ==
  IF \A j \in 1..Len(text) : text[j] # "\n" THEN <<text>>
  ELSE LET b == CHOOSE j \in 1..Len(text) :
                  text[j] = "\n" /\ \A h \in 1..(j - 1) : text[h] # "\n"
       IN  <<SubSeq(text, 1, b - 1)>> \o Lines(SubSeq(text, b + 1, Len(text)))

GitVersionFull == <<"v1.2.0", " (build ", "1", ")">>

\* the git processes of task i that failed: no stdout stream, a non-zero
\* exit code, or a kill by signal
GitFailed(i) ==
  \E c \in {"describe", "revlist"} :
    /\ <<i, c>> \in DOMAIN procs
    /\ \/ procs[<<i, c>>].status = "nostream"
       \/ procs[<<i, c>>].status = "closed" /\ ~Success(procs[<<i, c>>].exit)

LastIndex(key) == Max({i \in DOMAIN tasks : tasks[i].key = key})

\* C1: once the record is built, its keys are exactly the configured names
\* with their first character lower-cased, whatever succeeded or failed.
C1_KeySet ==
  phase = "registered" =>
    DOMAIN result = {LowerCamel(config[i]) : i \in 1..Len(config)}

C1_Witness ==
  /\ phase = "registered"
  /\ config = <<NameProject, NameGitVersion, NameKoishiVersion>>
  /\ ~fs.project.ok
  /\ fs.koishi.ok
  /\ result[gitVersionKey] = Str(unknown)
  /\ Cardinality(DOMAIN result) = 3

\* C2: an anticipated failure changes only its own scraper's key: project is
\* the descriptor or, when it cannot be read, the empty structure;
\* koishiVersion is the host version or the unknown-marker; gitVersion is the
\* unknown-marker whenever a git process of its scraper failed, and the full
\* version string otherwise.
C2_Isolation ==
  phase = "registered" =>
    /\ projectKey \in DOMAIN result =>
         result[projectKey] =
           IF fs.project.ok THEN Obj(fs.project.json) ELSE Obj(<<>>)
    /\ koishiVersionKey \in DOMAIN result =>
         result[koishiVersionKey] =
           IF fs.koishi.ok THEN Str(fs.koishi.json.version) ELSE Str(unknown)
    /\ gitVersionKey \in DOMAIN result =>
         result[gitVersionKey] =
           IF GitFailed(LastIndex(gitVersionKey)) THEN Str(unknown)
           ELSE Str(GitVersionFull)

\* C3: a settled scrapeGitVersion returned "<describe> (build <rev-list>)",
\* both trimmed, when both calls resolved, the unknown-marker when the first
\* call was rejected or the second was, and never the first call's text alone.
C3_NoPartial ==
  \A i \in DOMAIN tasks :
    (tasks[i].fn = "scrapeGitVersion" /\ tasks[i].st = "settled") =>
      LET d == procs[<<i, "describe">>]
          hasR == <<i, "revlist">> \in DOMAIN procs
      IN  /\ d.outcome = "rejected" => tasks[i].value = Str(unknown)
          /\ d.outcome = "resolved" =>
               /\ hasR
               /\ tasks[i].value.v # trim(d.payload.v)
               /\ procs[<<i, "revlist">>].outcome = "rejected" =>
                    tasks[i].value = Str(unknown)
               /\ procs[<<i, "revlist">>].outcome = "resolved" =>
                    /\ tasks[i].value =
                         Str(trim(d.payload.v) \o <<" (build ">>
                               \o trim(procs[<<i, "revlist">>].payload.v)
                               \o <<")">>)
                    /\ \A j \in 1..Len(tasks[i].value.v) :
                         tasks[i].value.v[j] \notin WhiteSpace
                    /\ (Success(d.exit) /\ Success(procs[<<i, "revlist">>].exit))
                         => tasks[i].value = Str(GitVersionFull)

C3_Witness ==
  \E i \in DOMAIN tasks :
    /\ tasks[i].st = "settled"
    /\ <<i, "revlist">> \in DOMAIN procs
    /\ procs[<<i, "describe">>].outcome = "resolved"
    /\ procs[<<i, "describe">>].payload.v = <<"v1.2.0", "\n">>
    /\ procs[<<i, "revlist">>].status = "closed"
    /\ procs[<<i, "revlist">>].outcome = "rejected"

\* the default configuration ran and every scraper succeeded
AllSucceeded ==
  /\ config = <<NameProject, NameGitVersion, NameKoishiVersion>>
  /\ phase = "registered"
  /\ fs.project.ok
  /\ fs.koishi.ok
  /\ ~GitFailed(2)

ProjectVersion ==
  IF "version" \in DOMAIN fs.project.json THEN fs.project.json.version
  ELSE <<>>

\* C4 as claimed: with all three scrapers configured and succeeding, the
\* response shows name and description on its first line, the scraped git
\* version string on its version line and the host version on its framework
\* line.
C4_GitVersionLine ==
  \A r \in responses :
    AllSucceeded =>
      /\ Lines(r)[1] = <<"about", " - ", "demo">>
      /\ Lines(r)[2] = <<"version: ">> \o result[gitVersionKey].v
      /\ Lines(r)[3] = <<"framework: Koishi v", "4.15.0">>

\* C4 as amended: the version line shows the version field of the project
\* descriptor, empty when the descriptor has none; the scraped git version
\* string is in the record under gitVersion and is not rendered.
C4_ProjectVersionLine ==
  \A r \in responses :
    AllSucceeded =>
      /\ Len(Lines(r)) = 3
      /\ Lines(r)[1] = <<"about", " - ", "demo">>
      /\ Lines(r)[2] = <<"version: ">> \o ProjectVersion
      /\ Lines(r)[3] = <<"framework: Koishi v", "4.15.0">>
      /\ result[gitVersionKey] = Str(GitVersionFull)
      /\ \A j \in 1..Len(r) : r[j] \notin {"v1.2.0", " (build "}

C4_Witness ==
  /\ AllSucceeded
  /\ "version" \notin DOMAIN fs.project.json
  /\ responses =
       { <<"about", " - ", "demo", "\n", "version: ", "\n",
           "framework: Koishi v", "4.15.0">> }

\* C5: the scrapers are fanned out once; a command invocation leaves the
\* record, the tasks, the processes and the environment reads alone; all
\* invocations return the same text, the rendering of the captured record.
C5_Snapshot ==
  /\ [](/\ passes <= 1
        /\ phase = "registered" => passes = 1
        /\ invocations > 0 => phase = "registered"
        /\ Cardinality(responses) <= 1
        /\ invocations > 0 => responses = {Render(template, result)})
  /\ [][invocations' # invocations =>
          UNCHANGED <<result, tasks, procs, passes, fs, phase>>]_vars

C5_Witness ==
  /\ invocations = 2
  /\ Cardinality(responses) = 1
  /\ gitVersionKey \in DOMAIN result

\* C6: a spawnOutput call resolves only when its process closed with exit
\* code 0 and no signal, then with all the chunks the process wrote, in
\* order; it is rejected with the exit indicator whenever the process closed
\* any other way, and with an error when there is no stdout stream.
C6_Runner ==
  \A k \in DOMAIN procs :
    LET p == procs[k]
    IN  /\ p.status = "running" =>
             /\ p.outcome = "pending"
             /\ p.stdout = Flatten(SubSeq(Output(p.cmd), 1, p.sent))
        /\ p.status = "nostream" =>
             p.outcome = "rejected" /\ p.payload.t = "Error"
        /\ (p.status = "closed" /\ Success(p.exit)) =>
             /\ p.outcome = "resolved"
             /\ p.payload = Str(Flatten(Output(p.cmd)))
        /\ (p.status = "closed" /\ ~Success(p.exit)) =>
             /\ p.outcome = "rejected"
             /\ p.payload.t = "number"
        /\ p.outcome = "resolved" => (p.status = "closed" /\ Success(p.exit))

\* C7 as claimed: under a key configured more than once the record holds the
\* value of the invocation that completed last.
C7_CompletionOrder ==
  phase = "registered" =>
    \A key \in DOMAIN result :
      result[key] = tasks[lastSettled[key]].value

\* C7 as amended: under every key the record holds the value of the
\* invocation at the last position of that name in the configured list,
\* whatever the order in which the duplicates completed.
C7_LastPosition ==
  phase = "registered" =>
    \A key \in DOMAIN result :
      result[key] = tasks[LastIndex(key)].value

C7_Witness ==
  /\ phase = "registered"
  /\ config = <<NameGitVersion, NameGitVersion>>
  /\ lastSettled[gitVersionKey] = 1
  /\ tasks[1].value = Str(GitVersionFull)
  /\ tasks[2].value = Str(unknown)
  /\ result[gitVersionKey] = Str(unknown)

\* C8: with an empty scraper list nothing is started, spawned or read, the
\* record is empty, and the command is registered all the same.
C8_Empty ==
  /\ [](config = <<>> =>
          /\ tasks = <<>>
          /\ procs = <<>>
          /\ fs = [project |-> Unread, koishi |-> Unread]
          /\ phase = "registered" => result = <<>>)
  /\ (config = <<>>) ~> (config = <<>> /\ phase = "registered")

C8_Witness ==
  /\ config = <<>>
  /\ phase = "registered"
  /\ result = <<>>
  /\ responses = {<<" - ", "\n", "version: ", "\n", "framework: Koishi v">>}

\* C9: in one scrapeGitVersion the rev-list process exists only once the
\* describe process has closed and its call resolved; the two never run
\* together.
C9_Sequential ==
  \A i \in DOMAIN tasks :
    /\ <<i, "revlist">> \in DOMAIN procs =>
         /\ procs[<<i, "describe">>].status = "closed"
         /\ procs[<<i, "describe">>].outcome = "resolved"
    /\ ~(/\ <<i, "describe">> \in DOMAIN procs
         /\ <<i, "revlist">> \in DOMAIN procs
         /\ procs[<<i, "describe">>].status = "running"
         /\ procs[<<i, "revlist">>].status = "running")

C9_Witness ==
  \E i \in DOMAIN tasks :
    /\ <<i, "revlist">> \in DOMAIN procs
    /\ procs[<<i, "revlist">>].status = "running"
    /\ procs[<<i, "revlist">>].stdout = <<"1", "\n">>

Started(i) ==
  /\ i \in DOMAIN tasks
  /\ tasks[i].name = config[i]
  /\ tasks[i].fn = "scrapeGitVersion" => <<i, "describe">> \in DOMAIN procs

\* C10: once apply awaits, every configured scraper has been started; the
\* record exists and the command is registered only when every task has
\* settled and no process is running; and when every process closes the
\* command is registered in the end.
C10_FanOutFanIn ==
  /\ [](phase # "loaded" => \A i \in 1..Len(config) : Started(i))
  /\ [](phase = "registered" =>
          /\ \A i \in DOMAIN tasks : tasks[i].st = "settled"
          /\ \A k \in DOMAIN procs : procs[k].status # "running")
  /\ []((\E k \in DOMAIN procs : procs[k].status = "running") =>
          (phase = "awaiting" /\ result = <<>> /\ invocations = 0))
  /\ <>(phase = "registered")

C10_Witness ==
  /\ phase = "awaiting"
  /\ Len(config) = 2
  /\ \A i \in 1..2 :
       /\ <<i, "describe">> \in DOMAIN procs
       /\ procs[<<i, "describe">>].status = "running"
====
